---- MODULE Spec2Model ----
(***************************************************************************)
(* Model of tools/geiger-count.py: one invocation reads a cargo-geiger     *)
(* JSON report from standard input, sums the unsafe counts of the packages *)
(* it keeps, prints the report and, with --check, compares the total with  *)
(* a baseline file.  The baseline file outlives a run, so the model lets   *)
(* the tool be invoked again and again against the same file.              *)
(*                                                                         *)
(* Text is a sequence of code points (48..57 the digits, 45 "-", 10 the    *)
(* newline, 32 the space, 63 "?", 97 "a", 98 "b", 120 "x").  A JSON object  *)
(* is a function whose domain is the set of keys the object has.           *)
(***************************************************************************)
EXTENDS Integers, Sequences, FiniteSets, TLC

\* Largest number of entries in the "packages" array of a report.
MaxPkgs == 2

VARIABLES
    file,       \* the baseline file on disk: [exists, text]
    argCheck,   \* args.check: TRUE when --check BASELINE_FILE was supplied
    raw,        \* what sys.stdin.read() returned: [kind, data]
    pc,         \* position of the run in main()
    total,      \* local variable total
    rows,       \* local variable rows, in encounter order
    baseline,   \* local variable baseline: <<>> while unassigned, else <<n>>
    stdout,     \* lines printed to standard output
    stderr,     \* lines printed to standard error
    fileOps,    \* the open() calls this run made on the baseline file
    exitCode    \* exit status of the run, meaningful when pc = "done"

vars == <<file, argCheck, raw, pc, total, rows, baseline, stdout, stderr,
          fileOps, exitCode>>

----------------------------------------------------------------------------
(* JSON values and dict.get *)

EmptyMap == [k \in {} |-> 0]

\* d.get(k, default)
Get(d, k, default) == IF k \in DOMAIN d THEN d[k] ELSE default

\* The names a package can carry: "a" and "ab".
NameSamples == { <<97>>, <<97, 98>> }

\* The "used" mappings of an entry: category label -> count.
UsedSamples ==
    { "exprs" :> 1,
      ("exprs" :> 1) @@ ("fns" :> 2),
      ("exprs" :> 0 - 1) @@ ("fns" :> 0) }

IsLocalParts == { EmptyMap, "is_local" :> TRUE, "is_local" :> FALSE }

PackageParts ==
    { EmptyMap }
        \cup { "package" :> ("name" :> n) : n \in NameSamples }

UnsafetyParts ==
    { EmptyMap } \cup { "unsafety" :> ("used" :> u) : u \in UsedSamples }

\* The package entries a report can hold; every field is optional.
Entries ==
    { l @@ p @@ u : l \in IsLocalParts, p \in PackageParts, u \in UnsafetyParts }

PackageLists == UNION { [1..n -> Entries] : n \in 0..MaxPkgs }

\* The documents json.loads accepts here: with or without "packages".
Reports == { EmptyMap } \cup { "packages" :> ps : ps \in PackageLists }

\* What standard input can hold: nothing but whitespace, text that is not
\* JSON, or a report.
RawInputs ==
    { [kind |-> "blank", data |-> EmptyMap],
      [kind |-> "invalid", data |-> EmptyMap] }
        \cup { [kind |-> "json", data |-> d] : d \in Reports }

----------------------------------------------------------------------------
(* Text: str.strip, int(), str(), and the order of str *)

IsSpace(c) == c \in (9..13) \cup (28..32)

RECURSIVE LStrip(_)
LStrip(s) ==
    IF s # <<>> /\ IsSpace(Head(s)) THEN LStrip(Tail(s)) ELSE s

RECURSIVE RStrip(_)
RStrip(s) ==
    IF s # <<>> /\ IsSpace(s[Len(s)])
    THEN RStrip(SubSeq(s, 1, Len(s) - 1))
    ELSE s

\* str.strip()
Strip(s) == RStrip(LStrip(s))

IsDigit(c) == c \in 48..57

AllDigits(s) == s # <<>> /\ \A i \in 1..Len(s) : IsDigit(s[i])

\* int(s) succeeds: optional sign, then decimal digits (s is stripped).
IsIntText(s) ==
    IF s # <<>> /\ Head(s) \in {43, 45} THEN AllDigits(Tail(s)) ELSE AllDigits(s)

RECURSIVE DigitsToNat(_)
DigitsToNat(s) ==
    IF s = <<>> THEN 0
    ELSE 10 * DigitsToNat(SubSeq(s, 1, Len(s) - 1)) + (s[Len(s)] - 48)

\* int(s) for a text IsIntText accepts
ParseInt(s) ==
    IF Head(s) = 45 THEN 0 - DigitsToNat(Tail(s))
    ELSE IF Head(s) = 43 THEN DigitsToNat(Tail(s))
    ELSE DigitsToNat(s)

RECURSIVE NatToDigits(_)
NatToDigits(n) ==
    IF n < 10 THEN << 48 + n >>
    ELSE Append(NatToDigits(n \div 10), 48 + (n % 10))

\* IntToStr that loses the sign.
IntToStr_NoSign(n) == IF n < 0 THEN NatToDigits(0 - n) ELSE NatToDigits(n)

\* str(n)
IntToStr(n) == IF n < 0 THEN << 45 >> \o NatToDigits(0 - n) ELSE NatToDigits(n)

\* s < t on str: lexicographic by code point
RECURSIVE StrLess(_, _)
StrLess(s, t) ==
    IF t = <<>> THEN FALSE
    ELSE IF s = <<>> THEN TRUE
    ELSE IF Head(s) # Head(t) THEN Head(s) < Head(t)
    ELSE StrLess(Tail(s), Tail(t))

----------------------------------------------------------------------------
(* Aggregation and sorting *)

\* sum(used.values())
RECURSIVE SumValues(_)
SumValues(used) ==
    IF DOMAIN used = {} THEN 0
    ELSE LET k == CHOOSE x \in DOMAIN used : TRUE
         IN  used[k] + SumValues([x \in DOMAIN used \ {k} |-> used[x]])

\* LoopBody with "total += count" moved above the is_local test.
LoopBody_TotalBeforeFilter(pkg, acc) ==
    LET name  == Get(Get(pkg, "package", EmptyMap), "name", << 63 >>)
        used  == Get(Get(pkg, "unsafety", EmptyMap), "used", EmptyMap)
        count == SumValues(used)
    IN  [ total |-> acc.total + count,
          rows  |-> IF Get(pkg, "is_local", FALSE) /\ count > 0
                    THEN Append(acc.rows, <<name, count>>)
                    ELSE acc.rows ]

\* LoopBody with "count >= 0" for "count > 0".
LoopBody_RowAtZero(pkg, acc) ==
    IF ~Get(pkg, "is_local", FALSE) THEN acc
    ELSE LET name  == Get(Get(pkg, "package", EmptyMap), "name", << 63 >>)
             used  == Get(Get(pkg, "unsafety", EmptyMap), "used", EmptyMap)
             count == SumValues(used)
         IN  [ total |-> acc.total + count,
               rows  |-> IF count >= 0 THEN Append(acc.rows, <<name, count>>)
                         ELSE acc.rows ]

\* One pass of the for loop over an entry; acc holds total and rows.
LoopBody(pkg, acc) ==
    IF ~Get(pkg, "is_local", FALSE) THEN acc
    ELSE LET name  == Get(Get(pkg, "package", EmptyMap), "name", << 63 >>)
             used  == Get(Get(pkg, "unsafety", EmptyMap), "used", EmptyMap)
             count == SumValues(used)
         IN  [ total |-> acc.total + count,
               rows  |-> IF count > 0 THEN Append(acc.rows, <<name, count>>)
                         ELSE acc.rows ]

\* The for loop over data.get("packages", []), from entry i on.
RECURSIVE Loop(_, _, _)
Loop(pkgs, i, acc) ==
    IF i > Len(pkgs) THEN acc ELSE Loop(pkgs, i + 1, LoopBody(pkgs[i], acc))

\* TupleLess as sorted(rows, key=name) would compare.
TupleLess_NameOnly(a, b) == StrLess(a[1], b[1])

\* a < b on the (name, count) tuples sorted() compares
TupleLess(a, b) == StrLess(a[1], b[1]) \/ (a[1] = b[1] /\ a[2] < b[2])

\* x put into the sorted s before the first element greater than it
RECURSIVE Insert(_, _)
Insert(x, s) ==
    IF s = <<>> THEN << x >>
    ELSE IF TupleLess(x, Head(s)) THEN << x >> \o s
    ELSE << Head(s) >> \o Insert(x, Tail(s))

\* sorted(rows): a stable sort by TupleLess
RECURSIVE Sorted(_)
Sorted(s) ==
    IF s = <<>> THEN <<>>
    ELSE Insert(s[Len(s)], Sorted(SubSeq(s, 1, Len(s) - 1)))

----------------------------------------------------------------------------
(* Lines of output *)

CountLine(t)   == [line |-> "count", total |-> t]
RowLine(r)     == [line |-> "row", name |-> r[1], count |-> r[2]]
FailLine(t, b) == [line |-> "FAIL", total |-> t, baseline |-> b]
HintLine(t)    == [line |-> "hint", total |-> t]
OkLine(t, b)   == [line |-> "OK", total |-> t, baseline |-> b]
WarningLine(t) == [line |-> "WARNING", total |-> t]

RowLines(rs) == [i \in 1..Len(rs) |-> RowLine(rs[i])]

----------------------------------------------------------------------------
(* The baseline file *)

NoFile == [exists |-> FALSE, text |-> <<>>]

FileWith(text) == [exists |-> TRUE, text |-> text]

\* What the baseline file can be before the tool first runs: missing,
\* "2" with a trailing newline, "0", or the letter x.
FileSamples ==
    { NoFile, FileWith(<< 50, 10 >>), FileWith(<< 48 >>), FileWith(<< 120 >>) }

----------------------------------------------------------------------------
(* The run *)

\* raw before sys.stdin.read() has run
NoInput == [kind |-> "none", data |-> EmptyMap]

Init ==
    /\ file \in FileSamples
    /\ argCheck = FALSE
    /\ raw = NoInput
    /\ pc = "idle"
    /\ total = 0
    /\ rows = <<>>
    /\ baseline = <<>>
    /\ stdout = <<>>
    /\ stderr = <<>>
    /\ fileOps = <<>>
    /\ exitCode = 0

\* A new process: parse_args() and sys.stdin.read().
Invoke ==
    /\ pc = "idle"
    /\ argCheck' \in BOOLEAN
    /\ raw' \in RawInputs
    /\ pc' = "parse"
    /\ total' = 0
    /\ rows' = <<>>
    /\ baseline' = <<>>
    /\ stdout' = <<>>
    /\ stderr' = <<>>
    /\ fileOps' = <<>>
    /\ exitCode' = 0
    /\ UNCHANGED file

\* if not raw.strip(): ... sys.exit(1)
ParseBlank ==
    /\ pc = "parse"
    /\ raw.kind = "blank"
    /\ stderr' = stderr \o << "empty output", "install hint", "compile hint" >>
    /\ exitCode' = 1
    /\ pc' = "done"
    /\ UNCHANGED <<file, argCheck, raw, total, rows, baseline, stdout, fileOps>>

\* ParseInvalid with file=sys.stderr forgotten on the prints.
ParseInvalid_ToStdout ==
    /\ pc = "parse"
    /\ raw.kind = "invalid"
    /\ stdout' = stdout \o << "invalid JSON", "first 200 chars" >>
    /\ exitCode' = 1
    /\ pc' = "done"
    /\ UNCHANGED <<file, argCheck, raw, total, rows, baseline, stderr, fileOps>>

\* except json.JSONDecodeError: ... sys.exit(1)
ParseInvalid ==
    /\ pc = "parse"
    /\ raw.kind = "invalid"
    /\ stderr' = stderr \o << "invalid JSON", "first 200 chars" >>
    /\ exitCode' = 1
    /\ pc' = "done"
    /\ UNCHANGED <<file, argCheck, raw, total, rows, baseline, stdout, fileOps>>

\* data = json.loads(raw); total = 0; rows = []
ParseOk ==
    /\ pc = "parse"
    /\ raw.kind = "json"
    /\ total' = 0
    /\ rows' = <<>>
    /\ pc' = "aggregate"
    /\ UNCHANGED <<file, argCheck, raw, baseline, stdout, stderr, fileOps, exitCode>>

\* for pkg in data.get("packages", []): ...
Aggregate ==
    /\ pc = "aggregate"
    /\ LET acc == Loop(Get(raw.data, "packages", <<>>), 1,
                       [total |-> total, rows |-> rows])
       IN  /\ total' = acc.total
           /\ rows' = acc.rows
    /\ pc' = "report"
    /\ UNCHANGED <<file, argCheck, raw, baseline, stdout, stderr, fileOps, exitCode>>

\* Report with the rows printed above the count line.
Report_RowsFirst ==
    /\ pc = "report"
    /\ stdout' = stdout \o RowLines(Sorted(rows)) \o << CountLine(total) >>
    /\ pc' = "check"
    /\ UNCHANGED <<file, argCheck, raw, total, rows, baseline, stderr, fileOps, exitCode>>

\* print the count line, then one line per row of sorted(rows)
Report ==
    /\ pc = "report"
    /\ stdout' = stdout \o << CountLine(total) >> \o RowLines(Sorted(rows))
    /\ pc' = "check"
    /\ UNCHANGED <<file, argCheck, raw, total, rows, baseline, stderr, fileOps, exitCode>>

\* if args.check: is false; main returns
CheckNone ==
    /\ pc = "check"
    /\ ~argCheck
    /\ exitCode' = 0
    /\ pc' = "done"
    /\ UNCHANGED <<file, argCheck, raw, total, rows, baseline, stdout, stderr, fileOps>>

\* CheckFail with "total >= baseline" for "total > baseline".
CheckFail_AtEqual ==
    /\ pc = "check"
    /\ argCheck
    /\ file.exists
    /\ IsIntText(Strip(file.text))
    /\ LET b == ParseInt(Strip(file.text))
       IN  /\ total >= b
           /\ baseline' = << b >>
           /\ stdout' = stdout \o << FailLine(total, b), HintLine(total) >>
    /\ fileOps' = Append(fileOps, "r")
    /\ exitCode' = 1
    /\ pc' = "done"
    /\ UNCHANGED <<file, argCheck, raw, total, rows, stderr>>

\* CheckFail with sys.exit(1) forgotten: the OK line follows and main returns.
CheckFail_FallsThrough ==
    /\ pc = "check"
    /\ argCheck
    /\ file.exists
    /\ IsIntText(Strip(file.text))
    /\ LET b == ParseInt(Strip(file.text))
       IN  /\ total > b
           /\ baseline' = << b >>
           /\ stdout' = stdout \o
                 << FailLine(total, b), HintLine(total), OkLine(total, b) >>
    /\ fileOps' = Append(fileOps, "r")
    /\ exitCode' = 0
    /\ pc' = "done"
    /\ UNCHANGED <<file, argCheck, raw, total, rows, stderr>>

\* the file opens, int() accepts it and total > baseline: FAIL, sys.exit(1)
CheckFail ==
    /\ pc = "check"
    /\ argCheck
    /\ file.exists
    /\ IsIntText(Strip(file.text))
    /\ LET b == ParseInt(Strip(file.text))
       IN  /\ total > b
           /\ baseline' = << b >>
           /\ stdout' = stdout \o << FailLine(total, b), HintLine(total) >>
    /\ fileOps' = Append(fileOps, "r")
    /\ exitCode' = 1
    /\ pc' = "done"
    /\ UNCHANGED <<file, argCheck, raw, total, rows, stderr>>

\* CheckOk that lowers the baseline to a smaller total.
CheckOk_Ratchet ==
    /\ pc = "check"
    /\ argCheck
    /\ file.exists
    /\ IsIntText(Strip(file.text))
    /\ LET b == ParseInt(Strip(file.text))
       IN  /\ ~(total > b)
           /\ baseline' = << b >>
           /\ stdout' = stdout \o << OkLine(total, b) >>
           /\ file' = IF total < b THEN FileWith(IntToStr(total)) ELSE file
           /\ fileOps' = IF total < b THEN fileOps \o << "r", "w" >>
                         ELSE Append(fileOps, "r")
    /\ exitCode' = 0
    /\ pc' = "done"
    /\ UNCHANGED <<argCheck, raw, total, rows, stderr>>

\* the file opens, int() accepts it and total <= baseline: OK
CheckOk ==
    /\ pc = "check"
    /\ argCheck
    /\ file.exists
    /\ IsIntText(Strip(file.text))
    /\ LET b == ParseInt(Strip(file.text))
       IN  /\ ~(total > b)
           /\ baseline' = << b >>
           /\ stdout' = stdout \o << OkLine(total, b) >>
    /\ fileOps' = Append(fileOps, "r")
    /\ exitCode' = 0
    /\ pc' = "done"
    /\ UNCHANGED <<file, argCheck, raw, total, rows, stderr>>

\* the file opens but int() raises ValueError, which nothing catches
CheckValueError ==
    /\ pc = "check"
    /\ argCheck
    /\ file.exists
    /\ ~IsIntText(Strip(file.text))
    /\ fileOps' = Append(fileOps, "r")
    /\ stderr' = Append(stderr, "Traceback ValueError")
    /\ exitCode' = 1
    /\ pc' = "done"
    /\ UNCHANGED <<file, argCheck, raw, total, rows, baseline, stdout>>

\* except FileNotFoundError: WARNING, then the file is written
CheckCreate ==
    /\ pc = "check"
    /\ argCheck
    /\ ~file.exists
    /\ stdout' = Append(stdout, WarningLine(total))
    /\ file' = FileWith(IntToStr(total))
    /\ fileOps' = fileOps \o << "r", "w" >>
    /\ exitCode' = 0
    /\ pc' = "done"
    /\ UNCHANGED <<argCheck, raw, total, rows, baseline, stderr>>

\* The process is gone: only the baseline file remains.
Exit ==
    /\ pc = "done"
    /\ pc' = "idle"
    /\ argCheck' = FALSE
    /\ raw' = NoInput
    /\ total' = 0
    /\ rows' = <<>>
    /\ baseline' = <<>>
    /\ stdout' = <<>>
    /\ stderr' = <<>>
    /\ fileOps' = <<>>
    /\ exitCode' = 0
    /\ UNCHANGED file

Next ==
    \/ Invoke
    \/ Exit
    \/ ParseBlank
    \/ ParseInvalid
    \/ ParseOk
    \/ Aggregate
    \/ Report
    \/ CheckNone
    \/ CheckFail
    \/ CheckOk
    \/ CheckValueError
    \/ CheckCreate

Spec == Init /\ [][Next]_vars

----------------------------------------------------------------------------
(* What the properties speak of, read off the input and the output *)

\* The entries of the report on standard input.
Packages ==
    IF raw.kind = "json" /\ "packages" \in DOMAIN raw.data
    THEN raw.data["packages"]
    ELSE <<>>

EntryIsLocal(e) == "is_local" \in DOMAIN e /\ e["is_local"] = TRUE

EntryCount(e) ==
    IF "unsafety" \in DOMAIN e /\ "used" \in DOMAIN e["unsafety"]
    THEN SumValues(e["unsafety"]["used"])
    ELSE 0

EntryName(e) ==
    IF "package" \in DOMAIN e /\ "name" \in DOMAIN e["package"]
    THEN e["package"]["name"]
    ELSE << 63 >>

EntryNonNegative(e) ==
    "unsafety" \in DOMAIN e /\ "used" \in DOMAIN e["unsafety"]
        => \A k \in DOMAIN e["unsafety"]["used"] : e["unsafety"]["used"][k] >= 0

\* The sum of the counts of the entries of ps, of all or of the local ones.
RECURSIVE SumCounts(_, _)
SumCounts(ps, localOnly) ==
    IF ps = <<>> THEN 0
    ELSE (IF localOnly /\ ~EntryIsLocal(Head(ps)) THEN 0 ELSE EntryCount(Head(ps)))
             + SumCounts(Tail(ps), localOnly)

\* The report has been printed.
Reported == pc \in {"check", "done"} /\ raw.kind = "json"

LineKinds(out) == [i \in 1..Len(out) |-> out[i].line]

IsRow(l) == l.line = "row"

\* The (name, count) rows on standard output, in the order printed.
PrintedRows ==
    LET ls == SelectSeq(stdout, IsRow)
    IN  [i \in 1..Len(ls) |-> << ls[i].name, ls[i].count >>]

RECURSIVE SumRowCounts(_)
SumRowCounts(rs) == IF rs = <<>> THEN 0 ELSE Head(rs)[2] + SumRowCounts(Tail(rs))

Occurrences(x, s) == Cardinality({ i \in 1..Len(s) : s[i] = x })

Range(s) == { s[i] : i \in 1..Len(s) }

\* The integers a total or a baseline of the model can be.
Numbers == (0 - 3 * MaxPkgs - 3)..(3 * MaxPkgs + 3)

RECURSIVE Pow10(_)
Pow10(k) == IF k = 0 THEN 1 ELSE 10 * Pow10(k - 1)

RECURSIVE PlaceValue(_, _)
PlaceValue(d, i) ==
    IF i > Len(d) THEN 0
    ELSE (d[i] - 48) * Pow10(Len(d) - i) + PlaceValue(d, i + 1)

\* text is n written in decimal: a "-" when n < 0, then digits, no leading 0
IsDecimalOf(text, n) ==
    LET d == IF n < 0 THEN Tail(text) ELSE text
    IN  /\ text # <<>>
        /\ n < 0 => Head(text) = 45
        /\ d # <<>>
        /\ \A i \in 1..Len(d) : d[i] \in 48..57
        /\ Len(d) > 1 => d[1] # 48
        /\ PlaceValue(d, 1) = (IF n < 0 THEN 0 - n ELSE n)

\* text is n in decimal with whitespace, if anything, around it
HoldsInteger(text, n) ==
    \E i \in 1..Len(text), j \in 1..Len(text) :
        /\ i <= j
        /\ IsDecimalOf(SubSeq(text, i, j), n)
        /\ \A k \in 1..Len(text) : (k < i \/ k > j) => IsSpace(text[k])

----------------------------------------------------------------------------
(* Properties *)

\* C1 as stated: the printed total is the sum of the counts of every entry
\* of the report, local or not.
C1_TotalCountsEveryEntry ==
    Reported => stdout[1] = CountLine(SumCounts(Packages, FALSE))

\* C1: the printed total is the sum of the counts of the entries whose
\* is_local is true; entries with is_local false or absent add nothing.
C1_TotalCountsLocalEntries ==
    Reported => stdout[1] = CountLine(SumCounts(Packages, TRUE))

\* A local entry and a non-local entry, both with a positive count, reported.
C1_Witness ==
    /\ Reported
    /\ \E i, j \in 1..Len(Packages) :
        /\ EntryIsLocal(Packages[i]) /\ EntryCount(Packages[i]) > 0
        /\ ~EntryIsLocal(Packages[j]) /\ EntryCount(Packages[j]) > 0

\* The row an entry is due, and the entries that are due one.
DueRow(e) == RowLine(<< EntryName(e), EntryCount(e) >>)

DueEntries ==
    { i \in 1..Len(Packages) :
        EntryIsLocal(Packages[i]) /\ EntryCount(Packages[i]) > 0 }

\* C2: the rows printed are, one for one, the entries whose is_local is true
\* and whose count is positive, each under its package name or under "?"
\* when it has none; no other entry has a row.
C2_RowIffLocalAndPositive ==
    Reported =>
        LET printed == SelectSeq(stdout, IsRow)
        IN  /\ Len(printed) = Cardinality(DueEntries)
            /\ \A r \in Range(printed) \cup { DueRow(Packages[i]) : i \in DueEntries } :
                   Occurrences(r, printed)
                       = Cardinality({ i \in DueEntries : DueRow(Packages[i]) = r })

\* A nameless local entry got its "?" row while a local entry with count 0
\* or less, or an entry that is not local, got none.
C2_Witness ==
    /\ Reported
    /\ \E i, j \in 1..Len(Packages) :
        /\ i \in DueEntries
        /\ "package" \notin DOMAIN Packages[i]
        /\ j \notin DueEntries
    /\ \E k \in 1..Len(stdout) : IsRow(stdout[k]) /\ stdout[k].name = << 63 >>

\* This run opened the baseline file, which was there, and only read it.
ReadBaseline ==
    pc = "done" /\ argCheck /\ raw.kind = "json" /\ fileOps = << "r" >>

\* C3: with --check on a file that holds the integer n, the run prints FAIL
\* with total and n and exits 1 exactly when total > n; otherwise it prints
\* OK and exits 0.
C3_FailIffAboveBaseline ==
    \A n \in Numbers :
        ReadBaseline /\ HoldsInteger(file.text, n) =>
            IF total > n
            THEN /\ exitCode = 1
                 /\ FailLine(total, n) \in Range(stdout)
                 /\ "OK" \notin Range(LineKinds(stdout))
            ELSE /\ exitCode = 0
                 /\ OkLine(total, n) \in Range(stdout)
                 /\ "FAIL" \notin Range(LineKinds(stdout))

\* total equal to the baseline passed.
C3_Witness ==
    /\ ReadBaseline
    /\ HoldsInteger(file.text, total)
    /\ total > 0
    /\ exitCode = 0

\* C4: with --check on a file that is missing, the step prints WARNING,
\* leaves the file holding exactly the decimal string of total, and the run
\* ends with status 0.
C4_MissingBaselineCreated ==
    [][ pc = "check" /\ argCheck /\ ~file.exists =>
            /\ pc' = "done"
            /\ exitCode' = 0
            /\ stdout' = Append(stdout, WarningLine(total))
            /\ file'.exists
            /\ IsDecimalOf(file'.text, total) ]_vars

\* A run created the baseline with a total that is not zero.
C4_Witness ==
    /\ pc = "done"
    /\ fileOps = << "r", "w" >>
    /\ total < 0
    /\ exitCode = 0
    /\ file.exists

\* C5: no step changes a baseline file that exists, and the file comes to
\* exist only in a --check run that found it missing, holding that run's
\* total.
C5_BaselineNeverRewritten ==
    [][ /\ file.exists => file' = file
        /\ ~file.exists /\ file'.exists =>
              pc = "check" /\ argCheck /\ IsDecimalOf(file'.text, total) ]_vars

\* A later run with a lower total passed against the file and left it.
C5_Witness ==
    /\ ReadBaseline
    /\ \E n \in Numbers : HoldsInteger(file.text, n) /\ total < n
    /\ exitCode = 0

\* C6: a run whose input is blank or is not JSON prints nothing on standard
\* output, never opens the baseline file, leaves it as it was, goes from
\* parsing straight to its end and ends with status 1.
C6_BadInputStopsBeforeAggregation ==
    [][ raw'.kind \in {"blank", "invalid"} =>
            /\ stdout' = <<>>
            /\ fileOps' = <<>>
            /\ file' = file
            /\ pc' \in {"parse", "done"}
            /\ pc' = "done" => exitCode' = 1 ]_vars

\* A --check run on input that is not JSON has ended, the file still missing.
C6_Witness ==
    /\ pc = "done"
    /\ raw.kind = "invalid"
    /\ argCheck
    /\ ~file.exists
    /\ exitCode = 1

\* C7: a finished run on a report, the baseline file missing or holding an
\* integer, printed the count line, then the rows, then with --check exactly
\* one of OK, FAIL (with its hint) and WARNING, and without --check nothing
\* more, the baseline file never opened.
C7_OutputShape ==
    pc = "done" /\ raw.kind = "json"
        /\ (~file.exists \/ \E n \in Numbers : HoldsInteger(file.text, n)) =>
        LET kinds == LineKinds(stdout)
            m     == Len(SelectSeq(stdout, IsRow))
            rest  == SubSeq(kinds, m + 2, Len(kinds))
        IN  /\ Len(kinds) >= m + 1
            /\ kinds[1] = "count"
            /\ \A i \in 2..(m + 1) : kinds[i] = "row"
            /\ IF argCheck
               THEN rest \in { << "OK" >>, << "FAIL", "hint" >>, << "WARNING" >> }
               ELSE rest = <<>> /\ fileOps = <<>>

\* A --check run printed rows and then FAIL.
C7_Witness ==
    /\ pc = "done"
    /\ raw.kind = "json"
    /\ argCheck
    /\ Len(rows) >= 2
    /\ "FAIL" \in Range(LineKinds(stdout))

NameLessOrEqual(a, b) == a[1] = b[1] \/ StrLess(a[1], b[1])

\* x put into s, sorted by name, behind every row whose name is not greater
RECURSIVE InsertByName(_, _)
InsertByName(x, s) ==
    IF s = <<>> THEN << x >>
    ELSE IF NameLessOrEqual(Head(s), x) THEN << Head(s) >> \o InsertByName(x, Tail(s))
    ELSE << x >> \o s

\* rs sorted by name alone, rows of one name left in the order they came
RECURSIVE StableByName(_)
StableByName(rs) ==
    IF rs = <<>> THEN <<>>
    ELSE InsertByName(rs[Len(rs)], StableByName(SubSeq(rs, 1, Len(rs) - 1)))

\* C8 as stated: the rows are printed sorted by name, rows of one name in
\* the order their entries came in the report.
C8_StableByNameOnly ==
    Reported => PrintedRows = StableByName(rows)

\* C8: the rows printed are the rows recorded, in ascending order of name
\* and, under one name, in ascending order of count.
C8_SortedByNameThenCount ==
    Reported =>
        /\ Len(PrintedRows) = Len(rows)
        /\ \A r \in Range(rows) : Occurrences(r, PrintedRows) = Occurrences(r, rows)
        /\ \A i \in 1..(Len(PrintedRows) - 1) :
              LET a == PrintedRows[i]
                  b == PrintedRows[i + 1]
              IN  StrLess(a[1], b[1]) \/ (a[1] = b[1] /\ a[2] <= b[2])

\* Two rows of one name came with the larger count first and were printed
\* with the smaller count first.
C8_Witness ==
    /\ Reported
    /\ \E i, j \in 1..Len(rows) :
        /\ i < j
        /\ rows[i][1] = rows[j][1]
        /\ rows[i][2] > rows[j][2]
        /\ PrintedRows = << rows[j], rows[i] >>

\* C9: on a report with no negative count, the printed total is the sum of
\* the counts of the printed rows, and is 0 exactly when no row is printed.
C9_RowsAccountForTotal ==
    Reported /\ (\A i \in 1..Len(Packages) : EntryNonNegative(Packages[i])) =>
        /\ stdout[1].total = SumRowCounts(PrintedRows)
        /\ stdout[1].total = 0 <=> PrintedRows = <<>>

\* A report with a positive non-local entry beside a printed row.
C9_Witness ==
    /\ Reported
    /\ \A i \in 1..Len(Packages) : EntryNonNegative(Packages[i])
    /\ \E j \in 1..Len(Packages) :
        ~EntryIsLocal(Packages[j]) /\ EntryCount(Packages[j]) > 0
    /\ PrintedRows # <<>>

\* C10: a --check run on a report that ends with status 0 leaves the
\* baseline file there, holding an integer no smaller than the run's total.
C10_PassMeansWithinBaseline ==
    pc = "done" /\ argCheck /\ raw.kind = "json" /\ exitCode = 0 =>
        /\ file.exists
        /\ \E n \in Numbers : HoldsInteger(file.text, n) /\ n >= total

\* A run passed against a baseline that an earlier run wrote.
C10_Witness ==
    /\ ReadBaseline
    /\ exitCode = 0
    /\ IsDecimalOf(file.text, total)
    /\ total < 0

====
